---- MODULE Spec2Model ----
(***************************************************************************)
(* Model of src/main.py: the ConfigTransformer callbacks that lark's LALR  *)
(* parser invokes bottom-up, left to right, while it reads a source text,  *)
(* and Converter.parse_content around them.                                *)
(*                                                                         *)
(* Values are the Python objects the callbacks produce:                    *)
(*   int    [t |-> "int",   n |-> i]                                       *)
(*   float  [t |-> "float", n |-> i, negz |-> b]  an integral float i.0;   *)
(*          negz tells -0.0 from 0.0 (it is FALSE when i # 0)              *)
(*   str    [t |-> "str",   s |-> <<c1, ..., cn>>]  one-character strings  *)
(*   dict   [t |-> "dict",  d |-> <<[k |-> key, v |-> value], ...>>]       *)
(*          in insertion order, keys unique                                *)
(* An exception is [t |-> "err", e |-> kind].                              *)
(***************************************************************************)
EXTENDS Integers, Sequences, FiniteSets, TLC

(***************************************************************************)
(* Bounds of the model.                                                    *)
(***************************************************************************)
\* Longest token sequence of the expressions drawn over the small alphabet.
MaxTokens == 5
\* parse_content calls on the one Converter.
MaxRuns == 2
\* Callbacks of declarations, entries and mapping literals, over all calls.
MaxSteps == 5

(***************************************************************************)
(* Value constructors.                                                     *)
(***************************************************************************)
IntV(i) == [t |-> "int", n |-> i]

FloatV(i, z) == [t |-> "float", n |-> i, negz |-> (i = 0 /\ z)]

StrV(cs) == [t |-> "str", s |-> cs]

DictV(es) == [t |-> "dict", d |-> es]

Err(kind) == [t |-> "err", e |-> kind]

IsErr(x) == x.t = "err"

IsStr(v) == v.t = "str"

IsNum(v) == v.t \in {"int", "float"}

IsDict(v) == v.t = "dict"

\* -0.0, the only number whose sign its magnitude does not give.
IsNegZero(v) == v.t = "float" /\ v.n = 0 /\ v.negz

\* The sign bit of a number seen as a float.
SignNeg(v) == v.n < 0 \/ IsNegZero(v)

(***************************************************************************)
(* Python's str() and repr() of a value (lines 99 and, through '%s' and    *)
(* '%r', line 111).  The characters of the model hold no quote, backslash  *)
(* or control character, so repr of a str is the text between two quotes.  *)
(***************************************************************************)
DigitChar == <<"0", "1", "2", "3", "4", "5", "6", "7", "8", "9">>

RECURSIVE NatText(_)
NatText(i) ==
    IF i < 10 THEN <<DigitChar[i + 1]>>
    ELSE NatText(i \div 10) \o <<DigitChar[(i % 10) + 1]>>

IntText(i) == IF i < 0 THEN <<"-">> \o NatText(-i) ELSE NatText(i)

FloatText(v) ==
    (IF SignNeg(v) THEN <<"-">> ELSE <<>>)
        \o NatText(IF v.n < 0 THEN -v.n ELSE v.n) \o <<".", "0">>

RECURSIVE PyRepr(_)
RECURSIVE DictBody(_, _)
DictBody(es, i) ==
    IF i > Len(es) THEN <<>>
    ELSE (IF i > 1 THEN <<",", " ">> ELSE <<>>)
            \o <<"'", es[i].k, "'", ":", " ">> \o PyRepr(es[i].v)
            \o DictBody(es, i + 1)

PyStr(v) ==
    CASE v.t = "int" -> IntText(v.n)
      [] v.t = "float" -> FloatText(v)
      [] v.t = "str" -> v.s
      [] v.t = "dict" -> <<"{">> \o DictBody(v.d, 1) \o <<"}">>

PyRepr(v) == IF v.t = "str" THEN <<"'">> \o v.s \o <<"'">> ELSE PyStr(v)

(***************************************************************************)
(* Python's arithmetic on int and float (lines 101, 103, 105, 111).  One   *)
(* float operand makes the result a float; a zero float result carries the *)
(* sign IEEE 754 gives it.                                                 *)
(***************************************************************************)
BothInt(a, b) == a.t = "int" /\ b.t = "int"

NumAdd(a, b) ==
    IF BothInt(a, b) THEN IntV(a.n + b.n)
    ELSE FloatV(a.n + b.n, IsNegZero(a) /\ IsNegZero(b))

\* a - b is a + (-b): the difference is -0.0 only for -0.0 - (+0).
NumSub(a, b) ==
    IF BothInt(a, b) THEN IntV(a.n - b.n)
    ELSE FloatV(a.n - b.n, IsNegZero(a) /\ b.n = 0 /\ ~IsNegZero(b))

NumMul(a, b) ==
    IF BothInt(a, b) THEN IntV(a.n * b.n)
    ELSE FloatV(a.n * b.n, SignNeg(a) # SignNeg(b))

\* Python's remainder has the sign of the divisor; y # 0.
FloorMod(x, y) == IF y > 0 THEN x % y ELSE -((-x) % (-y))

NumMod(a, b) ==
    IF BothInt(a, b) THEN IntV(FloorMod(a.n, b.n))
    ELSE FloatV(FloorMod(a.n, b.n), b.n < 0)

(***************************************************************************)
(* Python's order on str: by code point, a proper prefix first.            *)
(***************************************************************************)
\* The printable ASCII characters of code points 32 to 95, in order.
AsciiLow ==
    <<
      " ", "!", "\"", "#", "$", "%", "&", "'", "(", ")", "*", "+",
      ",", "-", ".", "/", "0", "1", "2", "3", "4", "5", "6", "7",
      "8", "9", ":", ";", "<", "=", ">", "?", "@", "A", "B", "C",
      "D", "E", "F", "G", "H", "I", "J", "K", "L", "M", "N", "O",
      "P", "Q", "R", "S", "T", "U", "V", "W", "X", "Y", "Z", "[",
      "\\", "]", "^", "_"
    >>

\* The printable ASCII characters of code points 97 to 126, in order.
AsciiHigh ==
    <<
      "a", "b", "c", "d", "e", "f", "g", "h", "i", "j", "k", "l",
      "m", "n", "o", "p", "q", "r", "s", "t", "u", "v", "w", "x",
      "y", "z", "{", "|", "}", "~"
    >>

Ord(c) ==
    IF \E i \in 1..Len(AsciiLow) : AsciiLow[i] = c
    THEN 31 + (CHOOSE i \in 1..Len(AsciiLow) : AsciiLow[i] = c)
    ELSE 96 + (CHOOSE i \in 1..Len(AsciiHigh) : AsciiHigh[i] = c)

RECURSIVE SeqGreater(_, _, _)
\* x > y, both compared from position i on.
SeqGreater(x, y, i) ==
    IF i > Len(x) THEN FALSE
    ELSE IF i > Len(y) THEN TRUE
    ELSE IF Ord(x[i]) # Ord(y[i]) THEN Ord(x[i]) > Ord(y[i])
    ELSE SeqGreater(x, y, i + 1)

(***************************************************************************)
(* Python's str % arg (line 111 with a str on the left: printf-style       *)
(* formatting).  arg is one value, never a tuple.  Modelled: the           *)
(* conversions %s %r %a %d %i %u and %%, a '%' that ends the text, and a   *)
(* character that is no conversion.  A flag, width, precision, length      *)
(* modifier, mapping key "(" or another conversion letter gives            *)
(* Err("Unmodelled"), which the actions exclude from the inputs.           *)
(***************************************************************************)
FmtSpecChars ==
    {"-", "+", " ", "#", "0", "1", "2", "3", "4", "5", "6", "7", "8", "9",
     "*", ".", "h", "l", "L", "(",
     "o", "x", "X", "e", "E", "f", "F", "g", "G", "c"}

RECURSIVE FmtLoop(_, _, _, _, _)
\* fmt from position i on; used: the one argument is consumed; out: the text so far.
FmtLoop(fmt, i, arg, used, out) ==
    IF i > Len(fmt) THEN
        \* a left-over argument is an error, unless it is a mapping
        IF ~used /\ ~IsDict(arg) THEN Err("TypeError") ELSE StrV(out)
    ELSE IF fmt[i] # "%" THEN FmtLoop(fmt, i + 1, arg, used, out \o <<fmt[i]>>)
    ELSE IF i + 1 > Len(fmt) THEN Err("FormatError")  \* incomplete format
    ELSE LET c == fmt[i + 1] IN
        IF c \in FmtSpecChars THEN Err("Unmodelled")
        ELSE IF c = "%" THEN FmtLoop(fmt, i + 2, arg, used, out \o <<"%">>)
        ELSE IF used THEN Err("TypeError")  \* not enough arguments
        ELSE IF c = "s" THEN FmtLoop(fmt, i + 2, arg, TRUE, out \o PyStr(arg))
        ELSE IF c \in {"r", "a"} THEN
            FmtLoop(fmt, i + 2, arg, TRUE, out \o PyRepr(arg))
        ELSE IF c \in {"d", "i", "u"} THEN
            IF IsNum(arg) THEN FmtLoop(fmt, i + 2, arg, TRUE, out \o IntText(arg.n))
            ELSE Err("TypeError")  \* a real number is required
        ELSE Err("FormatError")  \* unsupported format character

PyFormat(fmt, arg) == FmtLoop(fmt, 1, arg, FALSE, <<>>)

RECURSIVE Repeat(_, _)
\* Python's str * int: i copies, none when i <= 0.
Repeat(cs, i) == IF i <= 0 THEN <<>> ELSE cs \o Repeat(cs, i - 1)

(***************************************************************************)
(* The five operators as Python evaluates lines 97-111 on a and b.         *)
(***************************************************************************)
\* A slip: no str() around the operands, so str + number raises.
OpAddNoStr(a, b) ==
    IF IsStr(a) /\ IsStr(b) THEN StrV(a.s \o b.s)
    ELSE IF IsNum(a) /\ IsNum(b) THEN NumAdd(a, b)
    ELSE Err("TypeError")

\* lines 97-101
OpAdd(a, b) ==
    IF IsStr(a) \/ IsStr(b) THEN StrV(PyStr(a) \o PyStr(b))
    ELSE IF IsNum(a) /\ IsNum(b) THEN NumAdd(a, b)
    ELSE Err("TypeError")

\* lines 102-103
OpSub(a, b) == IF IsNum(a) /\ IsNum(b) THEN NumSub(a, b) ELSE Err("TypeError")

\* lines 104-105: Python repeats a str multiplied by an int
OpMul(a, b) ==
    IF IsNum(a) /\ IsNum(b) THEN NumMul(a, b)
    ELSE IF IsStr(a) /\ b.t = "int" THEN StrV(Repeat(a.s, b.n))
    ELSE IF a.t = "int" /\ IsStr(b) THEN StrV(Repeat(b.s, a.n))
    ELSE Err("TypeError")

\* lines 106-107: max(a, b) is b when b > a, and a otherwise
OpMax(a, b) ==
    IF IsNum(a) /\ IsNum(b) THEN (IF b.n > a.n THEN b ELSE a)
    ELSE IF IsStr(a) /\ IsStr(b) THEN (IF SeqGreater(b.s, a.s, 1) THEN b ELSE a)
    ELSE Err("TypeError")

\* lines 108-111: b == 0 is tested before a is looked at
OpMod(a, b) ==
    IF IsNum(b) /\ b.n = 0 THEN Err("DivZero")
    ELSE IF IsStr(a) THEN PyFormat(a.s, b)
    ELSE IF IsNum(a) /\ IsNum(b) THEN NumMod(a, b)
    ELSE Err("TypeError")

Ops == {"+", "-", "*", "max", "mod"}

\* The value or the exception of lines 97-111 for operator op.
Compute(op, a, b) ==
    CASE op = "+" -> OpAdd(a, b)
      [] op = "-" -> OpSub(a, b)
      [] op = "*" -> OpMul(a, b)
      [] op = "max" -> OpMax(a, b)
      [] op = "mod" -> OpMod(a, b)

(***************************************************************************)
(* Tokens and parse-tree items as the callbacks receive them.  A literal   *)
(* is its value (the NUMBER and string callbacks have run); a name is      *)
(* Token('NAME', id), an operator Token('OPERATION', op); a $[...] whose   *)
(* parts are not reduced yet is [t |-> "expr", toks |-> <<...>>].          *)
(***************************************************************************)
NameTok(id) == [t |-> "NAME", id |-> id]

OpTok(op) == [t |-> "OPERATION", op |-> op]

ExprOf(toks) == [t |-> "expr", toks |-> toks]

\* Python's None, which const_decl returns.
NoneV == [t |-> "none"]

(***************************************************************************)
(* The lexer on the text between $[ and ] (grammar, lines 20-22).  A piece *)
(* of that text is a literal, taken here as its value, or Word(w): a run   *)
(* of letters or an operator symbol.  Where NAME and OPERATION are both    *)
(* allowed lark tries NAME first, the terminal whose regexp can match the  *)
(* longer text, so every run of letters is a NAME token, the words max and *)
(* mod included; OPERATION is left with the symbols + - *.                 *)
(***************************************************************************)
Word(w) == [t |-> "word", w |-> w]

Symbols == {"+", "-", "*"}

Lex(x) ==
    IF x.t # "word" THEN x
    ELSE IF x.w \in Symbols THEN OpTok(x.w)
    ELSE NameTok(x.w)

LexAll(xs) == [i \in 1..Len(xs) |-> Lex(xs[i])]

(***************************************************************************)
(* dict.update (lines 38 and 51): a key already present keeps its place    *)
(* and takes the new value, a new key goes to the end.                     *)
(***************************************************************************)
HasKey(es, key) == \E i \in 1..Len(es) : es[i].k = key

Lookup(es, key) == es[CHOOSE i \in 1..Len(es) : es[i].k = key].v

\* A slip: a key already present keeps its first value (setdefault).
SetKeyKeepFirst(es, key, val) ==
    IF HasKey(es, key) THEN es ELSE Append(es, [k |-> key, v |-> val])

SetKey(es, key, val) ==
    IF HasKey(es, key)
    THEN [i \in 1..Len(es) |-> IF es[i].k = key THEN [k |-> key, v |-> val] ELSE es[i]]
    ELSE Append(es, [k |-> key, v |-> val])

RECURSIVE Update(_, _, _)
\* es after es.update(other), entries of other from position i on.
Update(es, other, i) ==
    IF i > Len(other) THEN es
    ELSE Update(SetKey(es, other[i].k, other[i].v), other, i + 1)

(***************************************************************************)
(* ConfigTransformer._apply_op (lines 89-113) on a stack whose top is its  *)
(* last element: the new stack as Stack(...), or the exception.            *)
(***************************************************************************)
Stack(vs) == [t |-> "stack", st |-> vs]

\* A slip: the test of lines 91-92 left out, so pop raises IndexError on
\* a stack that is too short.
ApplyOpUnchecked(op, stack) ==
    IF op \notin Ops THEN Err("UnknownOp")
    ELSE IF Len(stack) < 2 THEN Err("IndexError")
    ELSE LET b == stack[Len(stack)]
             a == stack[Len(stack) - 1]
             r == Compute(op, a, b)
         IN IF IsErr(r) THEN r
            ELSE Stack(Append(SubSeq(stack, 1, Len(stack) - 2), r))

ApplyOp(op, stack) ==
    IF op \notin Ops THEN Err("UnknownOp")
    ELSE IF Len(stack) < 2 THEN Err("Insufficient")
    ELSE LET b == stack[Len(stack)]
             a == stack[Len(stack) - 1]
             r == Compute(op, a, b)
         IN IF IsErr(r) THEN r
            ELSE Stack(Append(SubSeq(stack, 1, Len(stack) - 2), r))

\* The stack an exception of lines 97-113 leaves behind: b and a were
\* popped (lines 94-95) when op is known and two operands lay there.
Popped(op, stack) ==
    IF op \in Ops /\ Len(stack) >= 2
    THEN SubSeq(stack, 1, Len(stack) - 2) ELSE stack

\* One turn of the loop of _calc (lines 71-83) on item i, constants tab.
CalcStep(tab, stack, i) ==
    IF i.t = "NAME" THEN
        IF i.id \in DOMAIN tab THEN Stack(Append(stack, tab[i.id]))
        ELSE Err("UnknownName")
    ELSE IF i.t = "OPERATION" THEN ApplyOp(i.op, stack)
    ELSE Stack(Append(stack, i))

\* A slip: the top of the stack is returned, whatever lies under it.
CalcEndTop(stack) ==
    IF stack = <<>> THEN Err("Malformed") ELSE stack[Len(stack)]

\* The end of _calc (lines 85-87).
CalcEnd(stack) == IF Len(stack) # 1 THEN Err("Malformed") ELSE stack[1]

RECURSIVE CalcFrom(_, _, _, _)
\* _calc from item pos on.
CalcFrom(tab, items, pos, stack) ==
    IF pos > Len(items) THEN CalcEnd(stack)
    ELSE LET r == CalcStep(tab, stack, items[pos])
         IN IF IsErr(r) THEN r ELSE CalcFrom(tab, items, pos + 1, r.st)

\* ConfigTransformer._calc (lines 69-87).
Calc(tab, items) == CalcFrom(tab, items, 1, <<>>)

(***************************************************************************)
(* ConfigTransformer.value (lines 115-122) on the one child of a value     *)
(* node, against the constants tab.                                        *)
(***************************************************************************)
Value(tab, val) ==
    IF val.t = "NAME" THEN
        IF val.id \in DOMAIN tab THEN tab[val.id] ELSE Err("Undeclared")
    ELSE val

RECURSIVE Reduce(_, _, _, _)
\* The children of expr_items as the parser reduces them left to right:
\* value runs on each operand when it is read, an operator token is kept.
\* The list _calc will get, as Stack(...), or the first exception.
Reduce(tab, toks, pos, items) ==
    IF pos > Len(toks) THEN Stack(items)
    ELSE IF toks[pos].t = "OPERATION" THEN
        Reduce(tab, toks, pos + 1, Append(items, toks[pos]))
    ELSE LET v == Value(tab, toks[pos])
         IN IF IsErr(v) THEN v ELSE Reduce(tab, toks, pos + 1, Append(items, v))

\* A $[...] of flat tokens: expr_items (66-67), const_expr (61-64), then the
\* value callback of the node that holds it (line 122).
ConstExpr(tab, toks) ==
    LET r == Reduce(tab, toks, 1, <<>>)
    IN IF IsErr(r) THEN r ELSE Calc(tab, r.st)

\* The value of a value node x: a literal, a name, or a $[...] of tokens.
Eval(tab, x) == IF x.t = "expr" THEN ConstExpr(tab, x.toks) ELSE Value(tab, x)

\* No format text outside the modelled conversions was met.
Modelled(r) == r # Err("Unmodelled")

(***************************************************************************)
(* The program state.                                                      *)
(*   consts, result  ConfigTransformer.consts and .result of the one       *)
(*                   transformer a Converter makes (lines 32-33, 155)      *)
(*   pc      "idle", or "parsing" inside Converter.parse_content           *)
(*   items   the children of start reduced so far in this call: None for a *)
(*           declaration, the dict for a top-level mapping literal         *)
(*   frames  the mapping literals that are open, outermost first: where    *)
(*           the literal stands (ctx, id) and its entries reduced so far   *)
(*   ret     what the last finished call gave its caller: nothing yet,     *)
(*           Err(kind), or [t |-> "ok"]: the object self.result itself     *)
(*           (lines 39, 172), whose content is the variable result         *)
(* History, for stating properties:                                        *)
(*   given   the content the returned mapping had when a caller first got  *)
(*           it (every successful call returns the one object self.result) *)
(*   run     the number of parse_content calls begun                       *)
(*   steps   the number of callbacks run for declarations, entries and     *)
(*           mapping literals                                              *)
(*   decl    name -> value of the declarations of this call's source       *)
(*   last    the last callback and what came of it                         *)
(* One $[...] followed token by token:                                     *)
(*   cphase  "off", "read" (the parser reduces expr_items), "calc" (the    *)
(*           loop of _calc), "done"                                        *)
(*   ctoks   the text between $[ and ], piece by piece                     *)
(*   citems  the children reduced so far, then the list _calc works on     *)
(*   cpos    the next position in ctoks (read) or citems (calc)            *)
(*   cstack  the stack of _calc                                            *)
(*   cout    the value or the exception of the expression                  *)
(*   cturn   history: the item of the last turn of the loop of _calc       *)
(*   cprev   history: the stack before that turn                           *)
(*   cpass   history: how many times the expression has been begun         *)
(*   cfirst  history: what its first evaluation came to                    *)
(***************************************************************************)
VARIABLES consts, result, pc, items, frames, ret, run, steps, decl, last,
          given, cphase, ctoks, citems, cpos, cstack, cout, cturn, cprev,
          cpass, cfirst

progVars ==
    <<consts, result, pc, items, frames, ret, run, steps, decl, last, given>>

calcVars ==
    <<cphase, ctoks, citems, cpos, cstack, cout, cturn, cprev, cpass, cfirst>>

vars == <<consts, result, pc, items, frames, ret, run, steps, decl, last,
          given, cphase, ctoks, citems, cpos, cstack, cout, cturn, cprev,
          cpass, cfirst>>

(***************************************************************************)
(* The inputs the program is run on.                                       *)
(***************************************************************************)
\* Names, of constants and of keys (both are NAME tokens).
Names == {"a", "b"}

\* What stands as the value of a declaration or an entry: a literal, a
\* name, or an expression.
ValueNodes ==
    {IntV(1), NameTok("a"), ExprOf(<<NameTok("a"), IntV(1), OpTok("+")>>)}

\* The empty dict of names to values.
NoConsts == [n \in {} |-> NoneV]

Frame(ctx, id) == [ctx |-> ctx, id |-> id, kids |-> <<>>]

(***************************************************************************)
(* Converter.__init__ (lines 154-156) with ConfigTransformer.__init__      *)
(* (lines 30-33); no expression is being followed.                         *)
(***************************************************************************)
CalcOff ==
    /\ cphase = "off"
    /\ ctoks = <<>>
    /\ citems = <<>>
    /\ cpos = 1
    /\ cstack = <<>>
    /\ cout = NoneV
    /\ cturn = NoneV
    /\ cprev = <<>>
    /\ cpass = 0
    /\ cfirst = NoneV

Init ==
    /\ consts = NoConsts
    /\ result = <<>>
    /\ pc = "idle"
    /\ items = <<>>
    /\ frames = <<>>
    /\ ret = NoneV
    /\ run = 0
    /\ steps = 0
    /\ decl = NoConsts
    /\ last = [ev |-> "init"]
    /\ given = NoneV
    /\ CalcOff

(***************************************************************************)
(* Converter.parse_content (lines 168-176).                                *)
(***************************************************************************)
\* The call begins: line 171 starts the parser on the text.
Begin ==
    /\ pc = "idle"
    /\ run < MaxRuns
    /\ pc' = "parsing"
    /\ run' = run + 1
    /\ items' = <<>>
    /\ frames' = <<>>
    /\ decl' = NoConsts
    /\ last' = [ev |-> "begin"]
    /\ UNCHANGED <<consts, result, ret, steps, given>>
    /\ UNCHANGED calcVars

RECURSIVE Merge(_, _, _)
\* The loop of start (lines 36-38) from child pos on.
Merge(res, kids, pos) ==
    IF pos > Len(kids) THEN res
    ELSE Merge(IF IsDict(kids[pos]) THEN Update(res, kids[pos].d, 1) ELSE res,
               kids, pos + 1)

\* A slip: the top-level mappings read so far are merged into the document
\* when a callback raises.
RaisePartial(kind) ==
    /\ pc' = "idle"
    /\ ret' = Err(kind)
    /\ frames' = <<>>
    /\ items' = <<>>
    /\ result' = Merge(result, items, 1)
    /\ UNCHANGED <<consts, run, decl, given>>

\* A callback raises: the parse is abandoned with the parser's stack, and
\* parse_content raises in turn (lines 173-176; a TypeError passes through
\* as it is).  consts and result stay as they are.
Raise(kind) ==
    /\ pc' = "idle"
    /\ ret' = Err(kind)
    /\ frames' = <<>>
    /\ items' = <<>>
    /\ UNCHANGED <<consts, result, run, decl, given>>

\* The value reaches the node it stands in: the entries of the innermost
\* open literal (dict_entry, lines 41-44).
AddEntry(key, val) ==
    frames' = [frames EXCEPT ![Len(frames)].kids =
                  Append(@, [k |-> key, v |-> val])]

\* A slip: the old binding of the name is dropped before the value is
\* evaluated.
DefDropsFirst(name, x) ==
    /\ pc = "parsing"
    /\ frames = <<>>
    /\ steps < MaxSteps
    /\ steps' = steps + 1
    /\ LET v == Eval([n \in DOMAIN consts \ {name} |-> consts[n]], x) IN
        /\ Modelled(v)
        /\ last' = [ev |-> "def", id |-> name, x |-> x, out |-> v,
                    seen |-> decl, tab |-> consts, top |-> items]
        /\ IF IsErr(v) THEN Raise(v.e)
           ELSE /\ consts' = (name :> v) @@ consts
                /\ decl' = (name :> v) @@ decl
                /\ items' = Append(items, NoneV)
                /\ UNCHANGED <<result, pc, frames, ret, run, given>>
    /\ UNCHANGED calcVars

\* (def NAME value) at top level: value (115-122) and, for an expression,
\* const_expr (61-64), then const_decl (54-59).
Def(name, x) ==
    /\ pc = "parsing"
    /\ frames = <<>>
    /\ steps < MaxSteps
    /\ steps' = steps + 1
    /\ LET v == Eval(consts, x) IN
        /\ Modelled(v)
        /\ last' = [ev |-> "def", id |-> name, x |-> x, out |-> v,
                    seen |-> decl, tab |-> consts, top |-> items]
        /\ IF IsErr(v) THEN Raise(v.e)
           ELSE /\ consts' = (name :> v) @@ consts
                /\ decl' = (name :> v) @@ decl
                /\ items' = Append(items, NoneV)
                /\ UNCHANGED <<result, pc, frames, ret, run, given>>
    /\ UNCHANGED calcVars

\* A slip: the entry also stores its value in the table under its key.
EntryDeclares(key, x) ==
    /\ pc = "parsing"
    /\ frames # <<>>
    /\ steps < MaxSteps
    /\ steps' = steps + 1
    /\ LET v == Eval(consts, x) IN
        /\ Modelled(v)
        /\ last' = [ev |-> "entry", id |-> key, x |-> x, out |-> v,
                    seen |-> decl, tab |-> consts, top |-> items]
        /\ IF IsErr(v) THEN Raise(v.e)
           ELSE /\ AddEntry(key, v)
                /\ consts' = (key :> v) @@ consts
                /\ UNCHANGED <<result, pc, items, ret, run, decl, given>>
    /\ UNCHANGED calcVars

\* NAME = value inside the innermost open literal: value, then dict_entry.
Entry(key, x) ==
    /\ pc = "parsing"
    /\ frames # <<>>
    /\ steps < MaxSteps
    /\ steps' = steps + 1
    /\ LET v == Eval(consts, x) IN
        /\ Modelled(v)
        /\ last' = [ev |-> "entry", id |-> key, x |-> x, out |-> v,
                    seen |-> decl, tab |-> consts, top |-> items]
        /\ IF IsErr(v) THEN Raise(v.e)
           ELSE /\ AddEntry(key, v)
                /\ UNCHANGED <<consts, result, pc, items, ret, run, decl, given>>
    /\ UNCHANGED calcVars

\* "{" is read: at top level (ctx "top"), as the value of (def NAME ...
\* (ctx "def"), or as the value of NAME = ... (ctx "entry", inside a
\* literal).
Open(ctx, id) ==
    /\ pc = "parsing"
    /\ steps < MaxSteps
    /\ steps' = steps + 1
    /\ (ctx = "entry") = (frames # <<>>)
    /\ frames' = Append(frames, Frame(ctx, id))
    /\ last' = [ev |-> "open", ctx |-> ctx, id |-> id]
    /\ UNCHANGED <<consts, result, pc, items, ret, run, decl, given>>
    /\ UNCHANGED calcVars

\* ConfigTransformer.dict (lines 46-52) on the entries of a literal.
DictOf(kids) == DictV(Update(<<>>, kids, 1))

\* "}" is read: dict (46-52) makes the mapping, which then is a child of
\* start, or goes through value (line 122) to const_decl (54-59) or to
\* dict_entry (41-44) of the enclosing literal.
Close ==
    /\ pc = "parsing"
    /\ frames # <<>>
    /\ steps < MaxSteps
    /\ steps' = steps + 1
    /\ LET f == frames[Len(frames)]
           v == DictOf(f.kids)
           rest == SubSeq(frames, 1, Len(frames) - 1)
       IN
        /\ last' = [ev |-> "dict", ctx |-> f.ctx, id |-> f.id,
                    kids |-> f.kids, out |-> v, seen |-> decl,
                    tab |-> consts]
        /\ CASE f.ctx = "top" ->
                    /\ items' = Append(items, v)
                    /\ frames' = rest
                    /\ UNCHANGED <<consts, decl>>
             [] f.ctx = "def" ->
                    /\ consts' = (f.id :> v) @@ consts
                    /\ decl' = (f.id :> v) @@ decl
                    /\ items' = Append(items, NoneV)
                    /\ frames' = rest
             [] f.ctx = "entry" ->
                    /\ frames' = [rest EXCEPT ![Len(rest)].kids =
                                     Append(@, [k |-> f.id, v |-> v])]
                    /\ UNCHANGED <<consts, decl, items>>
    /\ UNCHANGED <<result, pc, ret, run, given>>
    /\ UNCHANGED calcVars

\* The text ends: start (lines 35-39) merges the top-level mappings into
\* self.result and returns that object, which parse_content returns (172).
Finish ==
    /\ pc = "parsing"
    /\ frames = <<>>
    /\ result' = Merge(result, items, 1)
    /\ pc' = "idle"
    /\ ret' = [t |-> "ok"]
    /\ items' = <<>>
    /\ last' = [ev |-> "start", kids |-> items, before |-> result]
    /\ given' = IF given = NoneV THEN DictV(Merge(result, items, 1)) ELSE given
    /\ UNCHANGED <<consts, frames, run, steps, decl>>
    /\ UNCHANGED calcVars

\* The parser meets a token the grammar does not allow at this place (or
\* the end of the text inside an open construct): LarkError, lines 173-174.
Reject ==
    /\ pc = "parsing"
    /\ Raise("Syntax")
    /\ last' = [ev |-> "reject"]
    /\ UNCHANGED steps
    /\ UNCHANGED calcVars

Next ==
    \/ Begin
    \/ \E name \in Names, x \in ValueNodes : Def(name, x)
    \/ \E key \in Names, x \in ValueNodes : Entry(key, x)
    \/ Open("top", "")
    \/ \E name \in Names : Open("def", name)
    \/ \E key \in Names : Open("entry", key)
    \/ Close
    \/ Finish
    \/ Reject

Spec == Init /\ [][Next]_vars

(***************************************************************************)
(* One expression $[...] followed callback by callback and, inside _calc,  *)
(* turn by turn.  The inputs are texts: every x y op over Operands, and    *)
(* every sequence up to MaxTokens over a small alphabet.  The expression   *)
(* is the value of an entry of a top-level mapping literal that follows    *)
(* the declarations CalcDecls; the same text comes again as the value of   *)
(* the next entry, or, after an exception, in the next call, whose source  *)
(* is the same or has (def u 2) before it.                                 *)
(***************************************************************************)
\* The constants declared before the expression.
CalcTable ==
    ("z" :> IntV(0)) @@ ("f" :> FloatV(0, FALSE)) @@ ("max" :> IntV(1))

\* The declarations of the source, in order: (def z 0) (def f .0)
\* (def max 1).
CalcDecls ==
    <<[id |-> "z", x |-> IntV(0)], [id |-> "f", x |-> FloatV(0, FALSE)],
      [id |-> "max", x |-> IntV(1)]>>

\* The declaration a later source may begin with: (def u 2).
OtherDecl == [id |-> "u", x |-> IntV(2)]

Operands ==
    {IntV(0), IntV(2), IntV(-3),
     FloatV(0, FALSE), FloatV(0, TRUE), FloatV(2, FALSE),
     StrV(<<>>), StrV(<<"k">>), StrV(<<"%", "d">>), StrV(<<"%", "s">>),
     DictV(<<>>), DictV(<<[k |-> "a", v |-> IntV(1)]>>),
     Word("z"), Word("f"), Word("u")}

BinaryExprs == {<<x, y, Word(op)>> : x \in Operands, y \in Operands, op \in Ops}

SmallToks == {IntV(1), IntV(2), StrV(<<"k">>), Word("-"), Word("+")}

SmallExprs == UNION {[1..n -> SmallToks] : n \in 0..MaxTokens}

\* Expressions where an operator comes before a name.
OrderExprs ==
    {<<Word("+"), Word(n)>> : n \in {"z", "u"}}
        \cup {<<IntV(1), Word("+"), Word(n)>> : n \in {"z", "u"}}

InitCalc ==
    /\ consts = CalcTable
    /\ result = <<>>
    /\ pc = "parsing"
    /\ items = [i \in 1..Len(CalcDecls) |-> NoneV]
    /\ frames = <<Frame("top", "")>>
    /\ ret = NoneV
    /\ run = 1
    /\ steps = Len(CalcDecls) + 1
    /\ decl = CalcTable
    /\ last = [ev |-> "open", ctx |-> "top", id |-> ""]
    /\ given = NoneV
    /\ cphase = "read"
    /\ ctoks \in {ts \in BinaryExprs \cup SmallExprs \cup OrderExprs :
                    Modelled(ConstExpr(CalcTable, LexAll(ts)))}
    /\ citems = <<>>
    /\ cpos = 1
    /\ cstack = <<>>
    /\ cout = NoneV
    /\ cturn = NoneV
    /\ cprev = <<>>
    /\ cpass = 1
    /\ cfirst = NoneV

\* The lexer gives the next token and the parser reduces it to a child of
\* expr_items: value (115-122) on an operand, the OPERATION token as it is.
ReadToken ==
    /\ cphase = "read"
    /\ cpos <= Len(ctoks)
    /\ LET tok == Lex(ctoks[cpos])
           v == IF tok.t = "OPERATION" THEN tok ELSE Value(consts, tok)
       IN IF IsErr(v)
          THEN /\ cphase' = "done"
               /\ cout' = v
               /\ UNCHANGED <<citems, cpos>>
          ELSE /\ citems' = Append(citems, v)
               /\ cpos' = cpos + 1
               /\ UNCHANGED <<cphase, cout>>
    /\ UNCHANGED <<ctoks, cstack, cturn, cprev, cpass, cfirst>>
    /\ UNCHANGED progVars

\* A slip: the stack is made once and kept (line 70 left out), so _calc
\* starts on what the expression before left there.
EnterCalcKeeps ==
    /\ cphase = "read"
    /\ cpos > Len(ctoks)
    /\ cphase' = "calc"
    /\ cpos' = 1
    /\ cstack' = cstack
    /\ UNCHANGED <<ctoks, citems, cout, cturn, cprev, cpass, cfirst>>
    /\ UNCHANGED progVars

\* "]" is read: expr_items (66-67) returns the children, const_expr (61-64)
\* calls _calc, which starts with an empty stack (line 70).
EnterCalc ==
    /\ cphase = "read"
    /\ cpos > Len(ctoks)
    /\ cphase' = "calc"
    /\ cpos' = 1
    /\ cstack' = <<>>
    /\ UNCHANGED <<ctoks, citems, cout, cturn, cprev, cpass, cfirst>>
    /\ UNCHANGED progVars

\* One turn of the loop of _calc (lines 71-83).  An exception ends the
\* expression; raised by an operator, it comes after the two pops.
CalcTurn ==
    /\ cphase = "calc"
    /\ cpos <= Len(citems)
    /\ cturn' = citems[cpos]
    /\ cprev' = cstack
    /\ LET r == CalcStep(consts, cstack, citems[cpos])
       IN IF IsErr(r)
          THEN /\ cphase' = "done"
               /\ cout' = r
               /\ cstack' = IF citems[cpos].t = "OPERATION"
                             THEN Popped(citems[cpos].op, cstack) ELSE cstack
               /\ UNCHANGED cpos
          ELSE /\ cstack' = r.st
               /\ cpos' = cpos + 1
               /\ UNCHANGED <<cphase, cout>>
    /\ UNCHANGED <<ctoks, citems, cpass, cfirst>>
    /\ UNCHANGED progVars

\* The loop is over: lines 85-87.
CalcReturn ==
    /\ cphase = "calc"
    /\ cpos > Len(citems)
    /\ cphase' = "done"
    /\ cout' = CalcEnd(cstack)
    /\ cturn' = NoneV
    /\ UNCHANGED <<ctoks, citems, cpos, cstack, cprev, cpass, cfirst>>
    /\ UNCHANGED progVars

\* The expression is over: its children and its outcome have gone to the
\* callback that follows or to the exception.  The stack of the call of
\* _calc that is over is left as that call left it; no code reads it.
Leave ==
    /\ cphase = "done"
    /\ cphase' = "off"
    /\ cfirst' = IF cfirst = NoneV THEN cout ELSE cfirst
    /\ citems' = <<>>
    /\ cpos' = 1
    /\ cout' = NoneV
    /\ cturn' = NoneV
    /\ cprev' = <<>>
    /\ UNCHANGED <<ctoks, cstack, cpass>>

\* The expression gave a value: value (line 122) passes it on and
\* dict_entry (41-44) binds it to the key of the entry.
NextEntry(key) ==
    /\ pc = "parsing"
    /\ frames # <<>>
    /\ ~IsErr(cout)
    /\ Leave
    /\ AddEntry(key, cout)
    /\ steps' = steps + 1
    /\ last' = [ev |-> "entry", id |-> key, x |-> ExprOf(LexAll(ctoks)),
                out |-> cout, seen |-> decl, tab |-> consts, top |-> items]
    /\ UNCHANGED <<consts, result, pc, items, ret, run, decl, given>>

\* The expression of the entry key raised: the call is over (lines
\* 173-176) and its caller has the exception.
CalcRaise(key) ==
    /\ pc = "parsing"
    /\ frames # <<>>
    /\ IsErr(cout)
    /\ Leave
    /\ Raise(cout.e)
    /\ steps' = steps + 1
    /\ last' = [ev |-> "entry", id |-> key, x |-> ExprOf(LexAll(ctoks)),
                out |-> cout, seen |-> decl, tab |-> consts, top |-> items]

\* const_decl (54-59), with value (115-122) before it, on the declaration d
\* of the source of a later call.
Declare(d) ==
    /\ pc = "parsing"
    /\ frames = <<>>
    /\ LET v == Eval(consts, d.x) IN
        /\ consts' = (d.id :> v) @@ consts
        /\ decl' = (d.id :> v) @@ decl
        /\ items' = Append(items, NoneV)
        /\ last' = [ev |-> "def", id |-> d.id, x |-> d.x, out |-> v,
                    seen |-> decl, tab |-> consts, top |-> items]
    /\ steps' = steps + 1
    /\ UNCHANGED <<result, pc, frames, ret, run, given>>
    /\ UNCHANGED calcVars

\* The source of a later call begins with (def u 2).
DeclareOther ==
    /\ items = <<>>
    /\ Declare(OtherDecl)

\* The next declaration of CalcDecls in the source of a later call.
Redeclare ==
    LET todo == {i \in 1..Len(CalcDecls) : CalcDecls[i].id \notin DOMAIN decl}
    IN /\ todo # {}
       /\ Declare(CalcDecls[CHOOSE i \in todo : \A j \in todo : i <= j])

\* "{" is read after the declarations of CalcDecls in a later call.
Reopen ==
    /\ pc = "parsing"
    /\ frames = <<>>
    /\ \A i \in 1..Len(CalcDecls) : CalcDecls[i].id \in DOMAIN decl
    /\ frames' = <<Frame("top", "")>>
    /\ steps' = steps + 1
    /\ last' = [ev |-> "open", ctx |-> "top", id |-> ""]
    /\ UNCHANGED <<consts, result, pc, items, ret, run, decl, given>>
    /\ UNCHANGED calcVars

\* "$[" is read with the same text after it, as the value of an entry of
\* the open literal.
ReadAgain ==
    /\ cphase = "off"
    /\ pc = "parsing"
    /\ frames # <<>>
    /\ cpass < MaxRuns
    /\ cpass' = cpass + 1
    /\ cphase' = "read"
    /\ UNCHANGED <<ctoks, citems, cpos, cstack, cout, cturn, cprev, cfirst>>
    /\ UNCHANGED progVars

NextCalc ==
    \/ ReadToken
    \/ EnterCalc
    \/ CalcTurn
    \/ CalcReturn
    \/ \E key \in Names : NextEntry(key)
    \/ \E key \in Names : CalcRaise(key)
    \/ Begin
    \/ DeclareOther
    \/ Redeclare
    \/ Reopen
    \/ ReadAgain

SpecCalc == InitCalc /\ [][NextCalc]_vars

(***************************************************************************)
(* Properties.                                                             *)
(***************************************************************************)
\* The names a value node refers to.
Refs(x) ==
    IF x.t = "NAME" THEN {x.id}
    ELSE IF x.t = "expr"
    THEN {x.toks[i].id : i \in {j \in 1..Len(x.toks) : x.toks[j].t = "NAME"}}
    ELSE {}

\* The last callback evaluated a value node (of a declaration or an entry).
Evaluated == last.ev \in {"def", "entry"}

\* The last callback stored a constant: const_decl ran.
Declared ==
    \/ last.ev = "def" /\ ~IsErr(last.out)
    \/ last.ev = "dict" /\ last.ctx = "def"

\* C1: order dependence.  A value node that refers to a name with no
\* declaration before it in this source text fails with the
\* undeclared-constant error; when every name it refers to is declared
\* before it, it has the value that the declared values give.
C1_OrderDependence ==
    Evaluated =>
        /\ \A n \in Refs(last.x) :
              n \notin DOMAIN last.seen => last.out = Err("Undeclared")
        /\ Refs(last.x) \subseteq DOMAIN last.seen =>
              last.out = Eval(last.seen, last.x)

\* C2: run isolation.  While a call parses, the table holds no name but
\* those its own source has declared; and the mapping a call returns has no
\* key but those of the top-level literals of its own source.
C2_RunIsolation ==
    /\ pc = "parsing" => DOMAIN consts \subseteq DOMAIN decl
    /\ last.ev = "start" =>
          \A key \in Names :
              HasKey(result, key) =>
                  \E i \in 1..Len(last.kids) :
                      IsDict(last.kids[i]) /\ HasKey(last.kids[i].d, key)

\* C4: write-once constants.  Declaring a name that this source has
\* declared before fails the conversion with the redeclaration error.
C4_WriteOnce ==
    (Declared /\ last.id \in DOMAIN last.seen) =>
        (pc = "idle" /\ ret = Err("Redeclaration"))

\* C10: mapping overwrite.  The mapping made from a literal (top-level or
\* nested) holds each key once, holds exactly the keys of the literal, and
\* binds each key to the value of its last occurrence.
C10_MappingOverwrite ==
    last.ev = "dict" =>
        LET kids == last.kids
            d == last.out.d
        IN /\ \A i, j \in 1..Len(d) : d[i].k = d[j].k => i = j
           /\ \A key \in Names :
                 HasKey(d, key) <=> \E i \in 1..Len(kids) : kids[i].k = key
           /\ \A i \in 1..Len(kids) :
                 (\A j \in (i + 1)..Len(kids) : kids[j].k # kids[i].k)
                     => Lookup(d, kids[i].k) = kids[i].v

\* A literal with one key twice, bound to two values, was closed.
C10_Witness ==
    /\ last.ev = "dict"
    /\ \E i, j \in 1..Len(last.kids) :
          i < j /\ last.kids[i].k = last.kids[j].k
                /\ last.kids[i].v # last.kids[j].v

(***************************************************************************)
(* Properties of one expression.                                           *)
(***************************************************************************)
NumOperators(toks) ==
    Cardinality({i \in 1..Len(toks) : Lex(toks[i]).t = "OPERATION"})

NumOperands(toks) == Len(toks) - NumOperators(toks)

\* The last turn of _calc applied op to a = ArgA and b = ArgB.
Applied(op) == cturn = OpTok(op) /\ Len(cprev) >= 2

ArgA == cprev[Len(cprev) - 1]

ArgB == cprev[Len(cprev)]

\* The expression failed with this exception in the last turn, after a
\* and b were popped: nothing was pushed.
Failed(kind) ==
    /\ cphase = "done"
    /\ cout = Err(kind)
    /\ cstack = SubSeq(cprev, 1, Len(cprev) - 2)

\* The last turn replaced a and b on the stack by v.
Pushed(v) ==
    /\ cphase = "calc"
    /\ cstack = Append(SubSeq(cprev, 1, Len(cprev) - 2), v)

\* The value the last turn pushed.
Top == cstack[Len(cstack)]

IsZero(v) == IsNum(v) /\ v.n = 0

\* The positions of the operator tokens of an expression.
OpPositions(toks) == {i \in 1..Len(toks) : Lex(toks[i]).t = "OPERATION"}

\* The operand token resolves: a literal, or a name the table holds.
Resolves(tok) == Lex(tok).t = "NAME" => Lex(tok).id \in DOMAIN consts

\* C3: stack balance.  An expression that evaluates successfully has one
\* operand token more than it has operator tokens; with any other count
\* it fails.  Tokens are counted as the lexer types them.
C3_StackBalance ==
    (cphase = "done" /\ ~IsErr(cout)) =>
        NumOperands(ctoks) = NumOperators(ctoks) + 1

\* An expression with two operators evaluated successfully.
C3_Witness ==
    /\ cphase = "done"
    /\ ~IsErr(cout)
    /\ NumOperators(ctoks) = 2
    /\ NumOperands(ctoks) = 3

\* C5: operator *.  With a String operand it fails with a type error and
\* pushes nothing; with two Numbers it pushes their product.
C5_MulRejectsStrings ==
    Applied("*") =>
        /\ (IsStr(ArgA) \/ IsStr(ArgB)) => Failed("TypeError")
        /\ (IsNum(ArgA) /\ IsNum(ArgB)) =>
              (Pushed(Top) /\ IsNum(Top) /\ Top.n = ArgA.n * ArgB.n)

\* The text is x y w, and the names among x and y are declared.
Binary(w) ==
    /\ cphase = "done"
    /\ Len(ctoks) = 3
    /\ ctoks[3] = Word(w)
    /\ Lex(ctoks[1]).t # "OPERATION" /\ Resolves(ctoks[1])
    /\ Lex(ctoks[2]).t # "OPERATION" /\ Resolves(ctoks[2])

\* The values of x and y in the text x y w.
SrcA == Value(consts, Lex(ctoks[1]))

SrcB == Value(consts, Lex(ctoks[2]))

\* C6: operator mod.  $[a b mod] with b a numeric zero (int or float,
\* literal or from a constant) fails with the division-by-zero error; with
\* two Numbers and b # 0 it gives the remainder a % b, a float when a or b
\* is one.
C6_ModZero ==
    Binary("mod") =>
        /\ IsZero(SrcB) => cout = Err("DivZero")
        /\ (IsNum(SrcA) /\ IsNum(SrcB) /\ SrcB.n # 0) =>
              /\ IsNum(cout)
              /\ (cout.t = "int") = BothInt(SrcA, SrcB)
              /\ cout.n = FloorMod(SrcA.n, SrcB.n)

\* C7: operator mod with a String operand.  $[a b mod] with a or b a
\* String (and b no numeric zero, which C6 covers) fails with a type error.
C7_ModRejectsStrings ==
    (Binary("mod") /\ (IsStr(SrcA) \/ IsStr(SrcB)) /\ ~IsZero(SrcB)) =>
        cout = Err("TypeError")

\* C8: operator +.  With a String operand it never fails and pushes the
\* String of a's text followed by b's text; with two Numbers it pushes
\* their sum, a float when a or b is one.
C8_Plus ==
    Applied("+") =>
        /\ (IsStr(ArgA) \/ IsStr(ArgB)) =>
              Pushed(StrV(PyStr(ArgA) \o PyStr(ArgB)))
        /\ (IsNum(ArgA) /\ IsNum(ArgB)) =>
              /\ Pushed(Top)
              /\ IsNum(Top)
              /\ Top.n = ArgA.n + ArgB.n
              /\ (Top.t = "int") = BothInt(ArgA, ArgB)

\* "k" + 2.0 pushed "k2.0".
C8_Witness ==
    /\ Applied("+")
    /\ ArgA = StrV(<<"k">>)
    /\ ArgB = FloatV(2, FALSE)
    /\ cphase = "calc"
    /\ cstack = <<StrV(<<"k", "2", ".", "0">>)>>

\* C9: operator max.  $[a b max] with two Numbers gives one of them, not
\* less than either; with two Strings one of them, not before either in
\* lexicographic order; with a Number and a String, or with a Mapping
\* operand, it fails with a type error.
C9_Max ==
    Binary("max") =>
        /\ (IsNum(SrcA) /\ IsNum(SrcB)) =>
              /\ cout \in {SrcA, SrcB}
              /\ cout.n >= SrcA.n /\ cout.n >= SrcB.n
        /\ (IsStr(SrcA) /\ IsStr(SrcB)) =>
              /\ cout \in {SrcA, SrcB}
              /\ ~SeqGreater(SrcA.s, cout.s, 1)
              /\ ~SeqGreater(SrcB.s, cout.s, 1)
        /\ ((IsNum(SrcA) /\ IsStr(SrcB)) \/ (IsStr(SrcA) /\ IsNum(SrcB))
                \/ IsDict(SrcA) \/ IsDict(SrcB)) =>
              cout = Err("TypeError")

(***************************************************************************)
(* Properties of the document and of a whole call.                         *)
(***************************************************************************)
\* The call returned the mapping (parse_content did not raise).
Returned == pc = "idle" /\ ret = [t |-> "ok"]

\* C11: document assembly.  The result of a conversion is the merge, in
\* source order, of the top-level mapping literals of its source: those
\* keys, each with the value of the last literal that has it, and no other.
C11_DocumentAssembly ==
    last.ev = "start" => result = Merge(<<>>, last.kids, 1)

\* C12: declarations add nothing.  A source with no top-level mapping
\* literal (declarations only, or nothing) converts to the empty mapping.
C12_DeclsAddNothing ==
    (last.ev = "start" /\ \A i \in 1..Len(last.kids) : ~IsDict(last.kids[i]))
        => (Returned /\ result = <<>>)

\* C13: fail-fast on the first error in source order.  When the first
\* operator token of an expression has fewer than two operands before it,
\* and those resolve, the first error in source order is that operator's
\* lack of operands: the expression fails with it, whatever comes later.
C13_FirstErrorInSourceOrder ==
    (cphase = "done" /\ OpPositions(ctoks) # {}) =>
        LET i == CHOOSE k \in OpPositions(ctoks) :
                     \A m \in OpPositions(ctoks) : k <= m
        IN (i <= 2 /\ \A j \in 1..(i - 1) : Resolves(ctoks[j]))
               => cout = Err("Insufficient")

\* C14: output immutability.  The mapping a call returned keeps the keys
\* and values it had when it was returned, whatever calls come later.
C14_OutputImmutability ==
    given # NoneV => result = given.d

\* The step stores a constant under name n: const_decl ran for n.
DeclaresNow(n) ==
    /\ last'.id = n
    /\ \/ last'.ev = "def" /\ ~IsErr(last'.out)
       \/ last'.ev = "dict" /\ last'.ctx = "def"

\* C15: reading never writes.  No step removes a name from the table, and
\* a step that adds a name or changes the value stored under a name is a
\* declaration of that name.
C15_ReadingNeverWrites ==
    [][/\ \A n \in DOMAIN consts :
            /\ n \in DOMAIN consts'
            /\ consts'[n] # consts[n] => DeclaresNow(n)
       /\ \A n \in DOMAIN consts' \ DOMAIN consts : DeclaresNow(n)]_vars

\* An entry whose value is an expression that reads a constant was
\* evaluated, and the table is as it was before.
C15_Witness ==
    /\ last.ev = "entry"
    /\ last.x.t = "expr"
    /\ Refs(last.x) # {}
    /\ ~IsErr(last.out)
    /\ consts = last.tab

\* The expression has been evaluated before, and its evaluation is over
\* once more.
SameAgain == cphase = "done" /\ cpass > 1

\* C16: expression determinism.  The same tokens evaluated again against a
\* table of the same contents come to what they came to the first time,
\* the same value or the same exception, whatever the stack of the
\* evaluation before was left with, however many evaluations came before,
\* and whatever entries the literal has got or calls have failed since.
C16_Determinism ==
    (SameAgain /\ consts = CalcTable) => cout = cfirst

\* An expression with an operator gave a value twice; the first value is
\* an entry of the open literal and lies on the stack the first evaluation
\* left.
C16_Witness ==
    /\ SameAgain
    /\ consts = CalcTable
    /\ ~IsErr(cout)
    /\ cout = cfirst
    /\ cturn = NoneV
    /\ \E i \in 1..Len(citems) : citems[i].t = "OPERATION"
    /\ frames[1].kids = <<[k |-> "a", v |-> cfirst]>>

(***************************************************************************)
(* Properties of the stack of one expression.                              *)
(***************************************************************************)
\* The last turn applied an operator and went through.
Went == cphase = "calc" /\ cturn.t = "OPERATION"

\* The token is the literal of a Number.
IsNumLit(tok) == tok.t \in {"int", "float"}

\* C17: operand order.  An operator that goes through takes b, the value
\* pushed last, and a, the one pushed before it, off the stack and pushes
\* one result in their place, so the depth drops by one; - gives a - b and
\* $[x y -] is x minus y, and $[x y mod] is x % y, for Numbers x and y.
C17_OperandOrder ==
    /\ Went =>
          /\ Len(cprev) >= 2
          /\ Len(cstack) = Len(cprev) - 1
          /\ Pushed(Top)
    /\ (Went /\ Applied("-") /\ IsNum(ArgA) /\ IsNum(ArgB)) =>
          Top.n = ArgA.n - ArgB.n
    /\ (/\ cphase = "done"
        /\ Len(ctoks) = 3
        /\ ctoks[3] = Word("-")
        /\ IsNumLit(ctoks[1])
        /\ IsNumLit(ctoks[2])) =>
          (IsNum(cout) /\ cout.n = ctoks[1].n - ctoks[2].n)
    /\ (/\ cphase = "done"
        /\ Len(ctoks) = 3
        /\ ctoks[3] = Word("mod")
        /\ IsNumLit(ctoks[1])
        /\ IsNumLit(ctoks[2])
        /\ ctoks[2].n # 0) =>
          (IsNum(cout) /\ cout.n = FloorMod(ctoks[1].n, ctoks[2].n))

\* _calc has taken every item and left its loop.
Consumed ==
    /\ cphase = "done"
    /\ cturn = NoneV
    /\ Len(citems) = Len(ctoks)
    /\ cpos > Len(citems)

\* C18: stack-imbalance error kinds.  An operator met with fewer than two
\* values on the stack fails at once with the insufficient-operands error,
\* whatever tokens follow; when every item was taken without error, a stack
\* of exactly one value gives that value and any other depth gives the
\* malformed-expression error.
C18_ImbalanceKinds ==
    /\ (cturn.t = "OPERATION" /\ Len(cprev) < 2) =>
          (cphase = "done" /\ cout = Err("Insufficient") /\ cstack = cprev)
    /\ Consumed =>
          cout = IF Len(cstack) = 1 THEN cstack[1] ELSE Err("Malformed")
    /\ (/\ cphase = "done"
        /\ OpPositions(ctoks) # {}
        /\ \A j \in 1..Len(ctoks) : Resolves(ctoks[j])
        /\ \E i \in OpPositions(ctoks) :
              i <= 2 /\ \A m \in OpPositions(ctoks) : i <= m) =>
          cout = Err("Insufficient")

\* $[1 + 2], three tokens with two operands, failed at + for lack of
\* operands.
C18_Witness ==
    /\ cphase = "done"
    /\ ctoks = <<IntV(1), Word("+"), IntV(2)>>
    /\ cturn = OpTok("+")
    /\ cout = Err("Insufficient")

\* The tokens 1 2 were taken and left two values: malformed.
C18_WitnessMalformed ==
    /\ Consumed
    /\ Len(cstack) = 2
    /\ cout = Err("Malformed")

(***************************************************************************)
(* Properties of declarations and of failed calls.                         *)
(***************************************************************************)
\* The expression $[n 1 +].
Successor(n) == ExprOf(<<NameTok(n), IntV(1), OpTok("+")>>)

\* C19: declaration-time snapshot.  The value of (def NAME VALUE) is that
\* of VALUE against the table as it stands before the declaration; a name
\* declared earlier in the source resolves to its most recent declaration;
\* (def X $[X 1 +]) fails when the table has no X and otherwise gives the
\* previous value of X plus one; and the declaration changes nothing but
\* the entry of NAME: the other constants and the children produced so far
\* keep their values.
C19_DeclarationSnapshot ==
    last.ev = "def" =>
        /\ last.out = Eval(last.tab, last.x)
        /\ (last.x.t = "NAME" /\ last.x.id \in DOMAIN last.seen) =>
              last.out = last.seen[last.x.id]
        /\ last.x = Successor(last.id) =>
              IF last.id \in DOMAIN last.tab
              THEN last.out = OpAdd(last.tab[last.id], IntV(1))
              ELSE last.out = Err("Undeclared")
        /\ ~IsErr(last.out) =>
              /\ DOMAIN consts = DOMAIN last.tab \cup {last.id}
              /\ consts[last.id] = last.out
              /\ \A n \in DOMAIN last.tab \ {last.id} : consts[n] = last.tab[n]
              /\ items = Append(last.top, NoneV)

\* a was 1, b was declared as a, then (def a $[a 1 +]) made a 2 and left
\* b at 1.
C19_Witness ==
    /\ last.ev = "def"
    /\ last.id = "a"
    /\ last.x = Successor("a")
    /\ "a" \in DOMAIN last.seen
    /\ last.out = IntV(2)
    /\ "b" \in DOMAIN consts
    /\ consts["b"] = IntV(1)
    /\ consts["a"] = IntV(2)

\* C20: a failed call leaves the document as it was.  self.result changes
\* only in the step of start that ends a call without error; no other
\* step, and no failing one, adds a key to it.
C20_FailureKeepsDocument ==
    [][result' # result =>
          /\ pc = "parsing"
          /\ frames = <<>>
          /\ last'.ev = "start"
          /\ ret' = [t |-> "ok"]]_vars

\* A call failed in a declaration or an entry after a top-level mapping
\* with a key was closed, and the document has no key.
C20_Witness ==
    /\ pc = "idle"
    /\ IsErr(ret)
    /\ Evaluated
    /\ \E i \in 1..Len(last.top) :
          IsDict(last.top[i]) /\ last.top[i].d # <<>>
    /\ result = <<>>

====
